---- MODULE Spec2Model ----
(***************************************************************************)
(* The DS1302 bit-banged driver of src/clock_ds1302.py as a state machine. *)
(* One step is one pin operation of the driver (or one pure computation    *)
(* between two pin operations); the program position is kept in pc, fn,    *)
(* byteNo, i, uw, idx and txn.                                             *)
(***************************************************************************)
EXTENDS Integers, Sequences, FiniteSets, TLC

VARIABLES
    clk,        \* level last written to the clock pin
    cs,         \* level last written to the chip-select/reset pin
    dio,        \* level last written to the data pin (its output latch)
    dioMode,    \* direction of the data pin: "NONE" (never configured), "OUT", "IN"
    op,         \* the public operation called last: [name, field, args]
    status,     \* "idle" | "running" | "returned" | "raised"
    result,     \* value returned by op ("None" when it returns nothing), or "ValueError"
    idx,        \* setDate/getDate: position in FieldOrder of the field being handled
    uw,         \* _unlock_then_write: [step, register, dataInBcd]
    txn,        \* register transaction in progress: [kind, register, data]
    pc,         \* next step of the driver; "idle" between calls, "done" when op has ended
    fn,         \* transport function in progress: "_write_byte" | "_read_byte" | "none"
    byteNo,     \* which transport call of the transaction (1, 2), 0 outside
    i,          \* loop index of _write_byte/_read_byte
    byte,       \* argument of the running _write_byte
    data,       \* accumulator of the running _read_byte
    reads,      \* getDate: the strings read so far
    txlog,      \* history: register transactions completed by op
    win,        \* history: chip-select window of the driver: "none" | "open" | "closed"
    winPulses,  \* history: clock pulses (high then low) inside the last window
    winBytes,   \* history: transport calls completed inside the last window
    wire,       \* history: pin writes of the running/last transport call
    samples,    \* history: levels sampled by the running/last _read_byte
    cin,        \* codec harness: integer handed to _int_to_bcd
    cbcd,       \* codec harness: what _int_to_bcd gave
    cout,       \* codec harness: what _bcd_to_string gave
    cpc,        \* codec harness: "off" | "in" | "encoded" | "decoded" | "raised"
    chip,       \* the clock chip on the bus, when one is modelled: [on, Minutes, Seconds, ticks]
    held,       \* history: minutes and seconds the chip has held since op was called
    other,      \* a second execution context that is not running: its control state
    switches    \* history: how often the processor went from one context to the other

pins == <<clk, cs, dio, dioMode>>
ctl == <<op, status, result, idx, uw, txn, pc, fn, byteNo, i, byte, data, reads>>
hist == <<txlog, win, winPulses, winBytes, wire, samples>>
codec == <<cin, cbcd, cout, cpc>>
ctl_but_pc == <<op, status, result, idx, uw, txn, fn, byteNo, i, byte, data, reads>>
env == <<chip, held, other, switches>>
vars == <<pins, ctl, hist, codec, env>>

-----------------------------------------------------------------------------
(* Register addresses, src/clock_ds1302.py:23-61 *)
RTC_SEC_WRITE == 128
RTC_SEC_READ == 129
RTC_MIN_WRITE == 130
RTC_MIN_READ == 131
RTC_HOUR_WRITE == 132
RTC_HOUR_READ == 133
RTC_DAY_OF_THE_MONTH_WRITE == 134
RTC_DAY_OF_THE_MONTH_READ == 135
RTC_MONTH_WRITE == 136
RTC_MONTH_READ == 137
RTC_DAY_OF_THE_WEEK_WRITE == 138
RTC_DAY_OF_THE_WEEK_READ == 139
RTC_YEAR_WRITE == 140
RTC_YEAR_READ == 141
RTC_REG_WRITE_PROTECTION == 142
RTC_CLOCK_BURST_MODE == 190
_year_prefix == "20"

(* Value written to the write-protect register to re-arm it (0x80). *)
WP_ON == 128
(* Stands for a raised ValueError where a function would return a number. *)
ValueError == -1

-----------------------------------------------------------------------------
(* Bounds of the inputs the model enumerates. *)
MaxWriteValue == 100
MaxNegative == 1
MaxCodecValue == 300
MaxCodecNegative == 200
(* Seconds that pass on the chip in a run with a chip. *)
MaxTicks == 3
(* Times the processor goes from one execution context to the other. *)
MaxSwitches == 1

WriteValues == (0 - MaxNegative)..MaxWriteValue
YearValues == {0 - 123, 0, 5, 30, 100, 1999, 2024, 12345}
CodecInputs == (0 - MaxCodecNegative)..MaxCodecValue
Bytes == 0..255
GetDateBytes == {36, 89}

DayValues == {0, 3, 32}
MonthValues == {2, 13}
SetYearValues == {0, 2024}
HourValues == {15, 25}
MinuteValues == {0 - 1, 47}
SecondValues == {30, 60}
TwoCalls == {<<"Seconds", 30>>, <<"Minutes", 47>>}
WeekdayValues == {6, 8, 100}

-----------------------------------------------------------------------------
(* Python's integer operators on unbounded two's-complement integers. *)
RECURSIVE BitAnd(_, _)
BitAnd(a, b) ==
    IF a = 0 \/ b = 0 THEN 0
    ELSE IF a = -1 THEN b
    ELSE IF b = -1 THEN a
    ELSE (a % 2) * (b % 2) + 2 * BitAnd(a \div 2, b \div 2)

RECURSIVE BitOr(_, _)
BitOr(a, b) ==
    IF a = 0 THEN b
    ELSE IF b = 0 THEN a
    ELSE IF a = -1 \/ b = -1 THEN -1
    ELSE (IF a % 2 = 1 \/ b % 2 = 1 THEN 1 ELSE 0) + 2 * BitOr(a \div 2, b \div 2)

Shr(a, n) == a \div (2 ^ n)
Shl(a, n) == a * (2 ^ n)

(* Python's str() and int() on decimal strings. *)
Digit(d) == <<"0", "1", "2", "3", "4", "5", "6", "7", "8", "9">>[d + 1]
DigitValue(c) == CHOOSE d \in 0..9 : Digit(d) = c

RECURSIVE str(_)
str(n) ==
    IF n < 0 THEN "-" \o str(0 - n)
    ELSE IF n < 10 THEN Digit(n)
    ELSE str(n \div 10) \o Digit(n % 10)

(* s[lo:hi] for 0 <= lo <= hi *)
Slice(s, lo, hi) ==
    LET last == IF hi < Len(s) THEN hi ELSE Len(s)
    IN  IF lo >= last THEN "" ELSE SubSeq(s, lo + 1, last)

RECURSIVE int(_)
int(s) ==
    IF Len(s) = 0 THEN ValueError
    ELSE IF Len(s) = 1 THEN DigitValue(s)
    ELSE 10 * int(SubSeq(s, 1, Len(s) - 1)) + DigitValue(SubSeq(s, Len(s), Len(s)))

-----------------------------------------------------------------------------
(* The BCD codec. *)
(* Variant: the byte is taken as a binary number, not as two decimal nibbles. *)
_bcd_to_string_binary(bcd_value) ==
    LET tens_digit == BitAnd(Shr(bcd_value, 4), 15)
        units_digit == BitAnd(bcd_value, 15)
    IN  str(tens_digit * 16 + units_digit)

_bcd_to_string(bcd_value) ==
    LET tens_digit == BitAnd(Shr(bcd_value, 4), 15)
        units_digit == BitAnd(bcd_value, 15)
        tens_digit_decimal == tens_digit * 10
        units_digit_decimal == units_digit
    IN  str(tens_digit_decimal + units_digit_decimal)

(* Variant: the tens digit is shifted by three bits instead of four. *)
_int_to_bcd_shift3(integer_value) ==
    IF integer_value < 0 \/ integer_value > 99 THEN ValueError
    ELSE LET tens_digit == integer_value \div 10
             units_digit == integer_value % 10
         IN  BitOr(Shl(tens_digit, 3), units_digit)

(* Variant: the upper limit is not checked, and a value above 99 is encoded. *)
_int_to_bcd_no_upper_limit(integer_value) ==
    IF integer_value < 0 THEN ValueError
    ELSE LET tens_digit == integer_value \div 10
             units_digit == integer_value % 10
         IN  BitOr(Shl(tens_digit, 4), units_digit)

_int_to_bcd(integer_value) ==
    IF integer_value < 0 \/ integer_value > 99 THEN ValueError
    ELSE LET tens_digit == integer_value \div 10
             units_digit == integer_value % 10
         IN  BitOr(Shl(tens_digit, 4), units_digit)

_prepare_year_for_save(year) ==
    LET yearAsString == str(year)
    IN  int(Slice(yearAsString, 2, 4))

-----------------------------------------------------------------------------
(* The fields, in the order setDate and getDate handle them. *)
FieldOrder == <<"DayOfTheMonth", "Month", "Year", "Hours", "Minutes", "Seconds", "DayOfTheWeek">>
Fields == {FieldOrder[k] : k \in 1..7}

WriteReg(f) ==
    CASE f = "Seconds" -> RTC_SEC_WRITE
      [] f = "Minutes" -> RTC_MIN_WRITE
      [] f = "Hours" -> RTC_HOUR_WRITE
      [] f = "DayOfTheMonth" -> RTC_DAY_OF_THE_MONTH_WRITE
      [] f = "Month" -> RTC_MONTH_WRITE
      [] f = "DayOfTheWeek" -> RTC_DAY_OF_THE_WEEK_WRITE
      [] f = "Year" -> RTC_YEAR_WRITE

ReadReg(f) ==
    CASE f = "Seconds" -> RTC_SEC_READ
      [] f = "Minutes" -> RTC_MIN_READ
      [] f = "Hours" -> RTC_HOUR_READ
      [] f = "DayOfTheMonth" -> RTC_DAY_OF_THE_MONTH_READ
      [] f = "Month" -> RTC_MONTH_READ
      [] f = "DayOfTheWeek" -> RTC_DAY_OF_THE_WEEK_READ
      [] f = "Year" -> RTC_YEAR_READ

(* The conditions of setDate's seven if statements, as Python evaluates them: *)
(* & binds tighter than the comparisons, and a > b < c is (a > b) and (b < c). *)
SetDateGuard(f, v) ==
    CASE f = "DayOfTheMonth" -> BitAnd(v, v) > BitAnd(0, v) /\ BitAnd(0, v) < 32
      [] f = "Month" -> BitAnd(v, v) > BitAnd(0, v) /\ BitAnd(0, v) < 13
      [] f = "Year" -> BitAnd(v, v) > 0
      [] f = "Hours" -> BitAnd(v, v) > BitAnd(-1, v) /\ BitAnd(-1, v) < 23
      [] f = "Minutes" -> BitAnd(v, v) > BitAnd(-1, v) /\ BitAnd(-1, v) < 60
      [] f = "Seconds" -> BitAnd(v, v) > BitAnd(-1, v) /\ BitAnd(-1, v) < 60
      [] f = "DayOfTheWeek" -> BitAnd(v, v) > BitAnd(0, v) /\ BitAnd(0, v) < 8

-----------------------------------------------------------------------------
(* Records of the control state. *)
NoOp == [name |-> "none", field |-> "-", args |-> <<>>]
NoUw == [step |-> 0, register |-> 0, dataInBcd |-> 0]
NoTxn == [kind |-> "none", register |-> 0, data |-> 0]
WriteTxn(register, d) == [kind |-> "W", register |-> register, data |-> d]
ReadTxn(register) == [kind |-> "R", register |-> register, data |-> 0]

(* The control state of a context that has called nothing yet. *)
IdleContext ==
    [op |-> NoOp, status |-> "idle", result |-> "None", idx |-> 0, uw |-> NoUw, txn |-> NoTxn,
     pc |-> "idle", fn |-> "none", byteNo |-> 0, i |-> 0, byte |-> 0, data |-> 0, reads |-> <<>>]

-----------------------------------------------------------------------------
(* The chip at the other end of the three wires: its registers hold the date   *)
(* of the usage example in BCD, and its minutes and seconds advance.            *)
NoChip == [on |-> FALSE, Minutes |-> 0, Seconds |-> 0, ticks |-> 0]
ChipStarts == {[on |-> TRUE, Minutes |-> 47, Seconds |-> s, ticks |-> 0] : s \in {58, 59}}

ChipBcd(v) == (v \div 10) * 16 + (v % 10)

(* The byte the chip shifts out when the read address is register. *)
ChipRegister(register) ==
    CASE register = RTC_SEC_READ -> ChipBcd(chip.Seconds)
      [] register = RTC_MIN_READ -> ChipBcd(chip.Minutes)
      [] register = RTC_HOUR_READ -> ChipBcd(15)
      [] register = RTC_DAY_OF_THE_MONTH_READ -> ChipBcd(3)
      [] register = RTC_MONTH_READ -> ChipBcd(2)
      [] register = RTC_YEAR_READ -> ChipBcd(24)
      [] register = RTC_DAY_OF_THE_WEEK_READ -> ChipBcd(6)
      [] OTHER -> 0

(* One second passes on the chip. *)
ChipAfterTick ==
    IF chip.Seconds = 59
    THEN [chip EXCEPT !.Seconds = 0, !.Minutes = (chip.Minutes + 1) % 60, !.ticks = chip.ticks + 1]
    ELSE [chip EXCEPT !.Seconds = chip.Seconds + 1, !.ticks = chip.ticks + 1]

(* State after DS1302.__init__: clk and cs are outputs, the data pin is not   *)
(* configured, and no pin level has been written: the clock and chip-select   *)
(* lines hold whatever level their output latch had.                          *)
InitDriver ==
    /\ clk \in {0, 1}
    /\ cs \in {0, 1}
    /\ dio = 0
    /\ dioMode = "NONE"
    /\ op = NoOp
    /\ status = "idle"
    /\ result = "None"
    /\ idx = 0
    /\ uw = NoUw
    /\ txn = NoTxn
    /\ pc = "idle"
    /\ fn = "none"
    /\ byteNo = 0
    /\ i = 0
    /\ byte = 0
    /\ data = 0
    /\ reads = <<>>
    /\ txlog = <<>>
    /\ win = "none"
    /\ winPulses = 0
    /\ winBytes = <<>>
    /\ wire = <<>>
    /\ samples = <<>>

(* No codec harness, no chip on the bus, no second context. *)
CodecOff ==
    /\ cin = 0
    /\ cbcd = 0
    /\ cout = ""
    /\ cpc = "off"

EnvOff ==
    /\ chip = NoChip
    /\ held = {}
    /\ other = IdleContext
    /\ switches = 0

Init == InitDriver /\ CodecOff /\ EnvOff

(* Local variables of the transport and of the transaction, when none runs. *)
NoTransport == fn' = "none" /\ byteNo' = 0 /\ i' = 0 /\ byte' = 0 /\ data' = 0

(* A public operation is entered. *)
BeginOp(o) ==
    /\ pc = "idle"
    /\ op' = o
    /\ held' = IF chip.on THEN {[Minutes |-> chip.Minutes, Seconds |-> chip.Seconds]} ELSE {}
    /\ UNCHANGED <<pins, reads, hist, codec, chip, other, switches>>

(* The public operation returns val. *)
Return(val) ==
    /\ status' = "returned"
    /\ result' = val
    /\ pc' = "done"
    /\ idx' = 0
    /\ uw' = NoUw
    /\ txn' = NoTxn
    /\ NoTransport

(* A ValueError leaves the public operation: nothing catches it. *)
Raise ==
    /\ status' = "raised"
    /\ result' = "ValueError"
    /\ pc' = "done"
    /\ idx' = 0
    /\ uw' = NoUw
    /\ txn' = NoTxn
    /\ NoTransport

(* _write_data_to_register / _read_from_regiter is entered: next is cs_rst.value(1). *)
StartTxn(t) ==
    /\ txn' = t
    /\ pc' = "cs_assert"
    /\ NoTransport

(* Variant: the unlock transaction is started before the value is converted. *)
_unlock_then_write_unlock_first(register, d) ==
    /\ uw' = [step |-> 1, register |-> register, dataInBcd |-> _int_to_bcd(d)]
    /\ StartTxn(WriteTxn(RTC_REG_WRITE_PROTECTION, 0))
    /\ status' = "running"
    /\ result' = "None"

(* write<Field>(v): the year is cut to two digits, then _unlock_then_write      *)
(* converts to BCD before it starts its first transaction.                      *)
_unlock_then_write(register, d) ==
    LET dataInBcd == _int_to_bcd(d)
    IN  IF dataInBcd = ValueError
        THEN Raise
        ELSE /\ uw' = [step |-> 1, register |-> register, dataInBcd |-> dataInBcd]
             /\ StartTxn(WriteTxn(RTC_REG_WRITE_PROTECTION, 0))
             /\ status' = "running"
             /\ result' = "None"

WriteField(f, v) ==
    IF f = "Year"
    THEN LET yearForSave == _prepare_year_for_save(v)
         IN  IF yearForSave = ValueError THEN Raise
             ELSE _unlock_then_write(RTC_YEAR_WRITE, yearForSave)
    ELSE _unlock_then_write(WriteReg(f), v)

(* What follows the field at position idx in setDate. *)
NextField ==
    IF idx = 7
    THEN Return("None")
    ELSE /\ idx' = idx + 1
         /\ pc' = "guard"
         /\ status' = "running"
         /\ result' = "None"
         /\ uw' = NoUw
         /\ txn' = NoTxn
         /\ NoTransport

-----------------------------------------------------------------------------
(* Public operations. *)
CallWrite(f, v) ==
    /\ BeginOp([name |-> "write", field |-> f, args |-> <<v>>])
    /\ idx' = 0
    /\ WriteField(f, v)

CallRead(f) ==
    /\ BeginOp([name |-> "read", field |-> f, args |-> <<>>])
    /\ status' = "running"
    /\ result' = "None"
    /\ idx' = 0
    /\ uw' = NoUw
    /\ StartTxn(ReadTxn(ReadReg(f)))

(* Variant: start() frames the command as a register transaction. *)
CallStartFramed ==
    /\ BeginOp([name |-> "start", field |-> "-", args |-> <<>>])
    /\ status' = "running"
    /\ result' = "None"
    /\ idx' = 0
    /\ uw' = NoUw
    /\ StartTxn(WriteTxn(RTC_CLOCK_BURST_MODE, 0))

CallStart ==
    /\ BeginOp([name |-> "start", field |-> "-", args |-> <<>>])
    /\ status' = "running"
    /\ result' = "None"
    /\ idx' = 0
    /\ uw' = NoUw
    /\ txn' = NoTxn
    /\ pc' = "dio_init_out"
    /\ fn' = "_write_byte"
    /\ byteNo' = 0
    /\ i' = 0
    /\ byte' = RTC_CLOCK_BURST_MODE
    /\ data' = 0

CallGetDate ==
    /\ BeginOp([name |-> "getDate", field |-> "-", args |-> <<>>])
    /\ status' = "running"
    /\ result' = "None"
    /\ idx' = 1
    /\ uw' = NoUw
    /\ StartTxn(ReadTxn(ReadReg(FieldOrder[1])))

CallSetDate(a) ==
    /\ BeginOp([name |-> "setDate", field |-> "-", args |-> a])
    /\ status' = "running"
    /\ result' = "None"
    /\ idx' = 1
    /\ pc' = "guard"
    /\ uw' = NoUw
    /\ txn' = NoTxn
    /\ NoTransport

(* One if statement of setDate. *)
SetDateIf ==
    /\ pc = "guard"
    /\ IF SetDateGuard(FieldOrder[idx], op.args[idx])
       THEN /\ WriteField(FieldOrder[idx], op.args[idx])
            /\ idx' = IF status' = "raised" THEN 0 ELSE idx
       ELSE NextField
    /\ UNCHANGED <<op, reads, pins, hist, codec, env>>

-----------------------------------------------------------------------------
(* Register transactions and the bit transport, one pin operation per step. *)

(* self.cs_rst.value(1), first statement of both transaction functions; the    *)
(* call of _write_byte(register) follows.                                      *)
CsAssert ==
    /\ pc = "cs_assert"
    /\ cs' = 1
    /\ win' = "open"
    /\ winPulses' = IF cs = 1 /\ win = "open" THEN winPulses ELSE 0
    /\ winBytes' = IF cs = 1 /\ win = "open" THEN winBytes ELSE <<>>
    /\ pc' = "dio_init_out"
    /\ fn' = "_write_byte"
    /\ byteNo' = 1
    /\ byte' = txn.register
    /\ i' = 0
    /\ UNCHANGED <<clk, dio, dioMode, op, status, result, idx, uw, txn, data, reads,
                   txlog, wire, samples, codec, env>>

(* Variant: _write_byte does not configure the data pin. *)
DioInitOutSkipped ==
    /\ pc = "dio_init_out"
    /\ i' = 0
    /\ wire' = <<>>
    /\ pc' = "dio_value"
    /\ UNCHANGED <<clk, cs, dio, dioMode, op, status, result, idx, uw, txn, fn, byteNo, byte,
                   data, reads, txlog, win, winPulses, winBytes, samples, codec, env>>

(* _write_byte: self.dio.init(Pin.OUT) *)
DioInitOut ==
    /\ pc = "dio_init_out"
    /\ dioMode' = "OUT"
    /\ i' = 0
    /\ wire' = <<>>
    /\ pc' = "dio_value"
    /\ UNCHANGED <<clk, cs, dio, op, status, result, idx, uw, txn, fn, byteNo, byte, data,
                   reads, txlog, win, winPulses, winBytes, samples, codec, env>>

(* Variant: the bits are sent most significant first. *)
DioValueMsbFirst ==
    /\ pc = "dio_value"
    /\ LET byte_to_write == BitAnd(Shr(byte, 7 - i), 1)
       IN  /\ dio' = byte_to_write
           /\ wire' = Append(wire, <<"dio", byte_to_write>>)
    /\ pc' = "clk_high"
    /\ UNCHANGED <<clk, cs, dioMode, ctl_but_pc, txlog, win, winPulses, winBytes, samples, codec, env>>

(* _write_byte: byte_to_write = (byte >> i) & 1; self.dio.value(byte_to_write) *)
DioValue ==
    /\ pc = "dio_value"
    /\ LET byte_to_write == BitAnd(Shr(byte, i), 1)
       IN  /\ dio' = byte_to_write
           /\ wire' = Append(wire, <<"dio", byte_to_write>>)
    /\ pc' = "clk_high"
    /\ UNCHANGED <<clk, cs, dioMode, ctl_but_pc, txlog, win, winPulses, winBytes, samples, codec, env>>

(* _read_byte: self.dio.init(Pin.IN); data = 0 *)
DioInitIn ==
    /\ pc = "dio_init_in"
    /\ dioMode' = "IN"
    /\ data' = 0
    /\ i' = 0
    /\ wire' = <<>>
    /\ samples' = <<>>
    /\ pc' = "dio_sample"
    /\ UNCHANGED <<clk, cs, dio, op, status, result, idx, uw, txn, fn, byteNo, byte, reads,
                   txlog, win, winPulses, winBytes, codec, env>>

(* Levels the chip may present for bit i of the byte it shifts out: any byte,  *)
(* and inside getDate a byte of GetDateBytes; with a chip on the bus, bit i of  *)
(* the register addressed.                                                      *)
LineLevels ==
    IF chip.on
    THEN {(ChipRegister(txn.register) \div (2 ^ i)) % 2}
    ELSE IF op.name = "getDate"
    THEN {b \in {0, 1} : \E B \in GetDateBytes : B % (2 ^ (i + 1)) = data + b * (2 ^ i)}
    ELSE {0, 1}

(* Variant: the sampled bits are assembled most significant first. *)
DioSampleMsbFirst ==
    /\ pc = "dio_sample"
    /\ \E bit_value \in LineLevels :
          /\ data' = BitOr(data, Shl(bit_value, 7 - i))
          /\ samples' = Append(samples, bit_value)
    /\ pc' = "clk_high"
    /\ UNCHANGED <<pins, op, status, result, idx, uw, txn, fn, byteNo, i, byte, reads,
                   txlog, win, winPulses, winBytes, wire, codec, env>>

(* _read_byte: bit_value = self.dio.value(); data = data | (bit_value << i) *)
DioSample ==
    /\ pc = "dio_sample"
    /\ \E bit_value \in LineLevels :
          /\ data' = BitOr(data, Shl(bit_value, i))
          /\ samples' = Append(samples, bit_value)
    /\ pc' = "clk_high"
    /\ UNCHANGED <<pins, op, status, result, idx, uw, txn, fn, byteNo, i, byte, reads,
                   txlog, win, winPulses, winBytes, wire, codec, env>>

(* _sample_data_on_the_raising_edge_of_the_clock: self.clk.value(1) *)
ClkHigh ==
    /\ pc = "clk_high"
    /\ clk' = 1
    /\ wire' = Append(wire, <<"clk", 1>>)
    /\ pc' = "clk_low"
    /\ UNCHANGED <<cs, dio, dioMode, ctl_but_pc, txlog, win, winPulses, winBytes, samples, codec, env>>

(* Variant: the clock is not lowered after the rising edge. *)
PulseLowStaysHigh ==
    /\ pc = "clk_low"
    /\ clk' = clk
    /\ wire' = Append(wire, <<"clk", 0>>)
    /\ winPulses' = IF win = "open" THEN winPulses + 1 ELSE winPulses
    /\ UNCHANGED <<cs, dio, dioMode, op, reads, txlog, win, samples, codec, env>>

(* _sample_data_on_the_raising_edge_of_the_clock: self.clk.value(0) *)
PulseLow ==
    /\ pc = "clk_low"
    /\ clk' = 0
    /\ wire' = Append(wire, <<"clk", 0>>)
    /\ winPulses' = IF win = "open" THEN winPulses + 1 ELSE winPulses
    /\ UNCHANGED <<cs, dio, dioMode, op, reads, txlog, win, samples, codec, env>>

(* The transport call ends with this pulse. *)
EndOfByte ==
    /\ i = 7
    /\ winBytes' = IF win = "open" THEN Append(winBytes, fn) ELSE winBytes

(* The pulse of bit i < 7: the for loop goes on. *)
ClkLowLoop ==
    /\ PulseLow
    /\ i < 7
    /\ i' = i + 1
    /\ pc' = IF fn = "_read_byte" THEN "dio_sample" ELSE "dio_value"
    /\ UNCHANGED <<status, result, idx, uw, txn, fn, byteNo, byte, data, winBytes>>

(* Variant: _write_data_to_register deasserts chip-select after the register   *)
(* byte, without sending the data byte.                                        *)
ClkLowSkipData ==
    /\ PulseLow
    /\ EndOfByte
    /\ fn = "_write_byte" /\ byteNo = 1 /\ txn.kind = "W"
    /\ pc' = "cs_deassert"
    /\ byteNo' = 2
    /\ byte' = txn.data
    /\ i' = 0
    /\ UNCHANGED <<status, result, idx, uw, txn, fn, data>>

(* _write_data_to_register: _write_byte(register) returns, _write_byte(data) is called. *)
ClkLowThenWriteData ==
    /\ PulseLow
    /\ EndOfByte
    /\ fn = "_write_byte" /\ byteNo = 1 /\ txn.kind = "W"
    /\ pc' = "dio_init_out"
    /\ byteNo' = 2
    /\ byte' = txn.data
    /\ i' = 0
    /\ UNCHANGED <<status, result, idx, uw, txn, fn, data>>

(* _read_from_regiter: _write_byte(register) returns, _read_byte() is called. *)
ClkLowThenReadData ==
    /\ PulseLow
    /\ EndOfByte
    /\ fn = "_write_byte" /\ byteNo = 1 /\ txn.kind = "R"
    /\ pc' = "dio_init_in"
    /\ fn' = "_read_byte"
    /\ byteNo' = 2
    /\ byte' = 0
    /\ i' = 0
    /\ UNCHANGED <<status, result, idx, uw, txn, data>>

(* The second transport call of a transaction returns: next is cs_rst.value(0). *)
ClkLowThenDeassert ==
    /\ PulseLow
    /\ EndOfByte
    /\ byteNo = 2
    /\ pc' = "cs_deassert"
    /\ i' = 0
    /\ UNCHANGED <<status, result, idx, uw, txn, fn, byteNo, byte, data>>

(* A _write_byte called outside a register transaction returns: start, whose  *)
(* only statement it is, returns too.                                          *)
ClkLowThenReturn ==
    /\ PulseLow
    /\ EndOfByte
    /\ fn = "_write_byte" /\ byteNo = 0
    /\ Return("None")

(* self.cs_rst.value(0), with the transaction entered in the log. *)
Deassert(ret) ==
    /\ pc = "cs_deassert"
    /\ cs' = 0
    /\ win' = "closed"
    /\ txlog' = Append(txlog, [kind |-> txn.kind, register |-> txn.register,
                               data |-> IF txn.kind = "R" THEN data ELSE txn.data,
                               ret |-> ret])
    /\ UNCHANGED <<clk, dio, dioMode, op, winPulses, winBytes, wire, samples, codec, env>>

(* Variant: chip-select stays high between the transactions of _unlock_then_write. *)
CsDeassertNextWriteKeepsCs ==
    /\ pc = "cs_deassert"
    /\ txlog' = Append(txlog, [kind |-> txn.kind, register |-> txn.register,
                               data |-> txn.data, ret |-> ""])
    /\ txn.kind = "W" /\ uw.step < 3
    /\ uw' = [uw EXCEPT !.step = uw.step + 1]
    /\ StartTxn(IF uw.step = 1 THEN WriteTxn(uw.register, uw.dataInBcd)
                ELSE WriteTxn(RTC_REG_WRITE_PROTECTION, WP_ON))
    /\ UNCHANGED <<pins, op, status, result, idx, reads, win, winPulses, winBytes, wire,
                   samples, codec, env>>

(* Variant: the third transaction writes 0 again, and write-protect stays off. *)
CsDeassertNextWriteNoRelock ==
    /\ Deassert("")
    /\ txn.kind = "W" /\ uw.step < 3
    /\ uw' = [uw EXCEPT !.step = uw.step + 1]
    /\ StartTxn(IF uw.step = 1 THEN WriteTxn(uw.register, uw.dataInBcd)
                ELSE WriteTxn(RTC_REG_WRITE_PROTECTION, 0))
    /\ UNCHANGED <<status, result, idx, reads>>

(* _unlock_then_write: the first or second _write_data_to_register returns and *)
(* the next one is called.                                                     *)
CsDeassertNextWrite ==
    /\ Deassert("")
    /\ txn.kind = "W" /\ uw.step < 3
    /\ uw' = [uw EXCEPT !.step = uw.step + 1]
    /\ StartTxn(IF uw.step = 1 THEN WriteTxn(uw.register, uw.dataInBcd)
                ELSE WriteTxn(RTC_REG_WRITE_PROTECTION, WP_ON))
    /\ UNCHANGED <<status, result, idx, reads>>

(* _unlock_then_write and write<Field> return to the caller of the public operation. *)
CsDeassertWriteReturn ==
    /\ Deassert("")
    /\ txn.kind = "W" /\ uw.step = 3 /\ op.name = "write"
    /\ Return("None")
    /\ UNCHANGED reads

(* _unlock_then_write and write<Field> return to setDate. *)
CsDeassertWriteSetDate ==
    /\ Deassert("")
    /\ txn.kind = "W" /\ uw.step = 3 /\ op.name = "setDate"
    /\ NextField
    /\ UNCHANGED reads

(* What read<Field> returns for the string _read_from_regiter gave. *)
ReadFieldValue(f, s) == IF f = "Year" THEN _year_prefix \o s ELSE s

(* _read_from_regiter and read<Field> return to the caller of the public operation. *)
CsDeassertReadReturn ==
    /\ Deassert(_bcd_to_string(data))
    /\ txn.kind = "R" /\ op.name = "read"
    /\ Return(ReadFieldValue(op.field, _bcd_to_string(data)))
    /\ UNCHANGED reads

(* Variant: minutes and seconds change places in the string. *)
FormatDateSwapped(r) ==
    "Date: " \o r[1] \o "." \o r[2] \o "." \o r[3] \o ", " \o r[4] \o ":" \o r[6]
        \o ":" \o r[5] \o ", Day: " \o r[7]

(* The string getDate builds from its seven reads. *)
FormatDate(r) ==
    "Date: " \o r[1] \o "." \o r[2] \o "." \o r[3] \o ", " \o r[4] \o ":" \o r[5]
        \o ":" \o r[6] \o ", Day: " \o r[7]

(* Variant: getDate reads the register of the field it has just read again. *)
CsDeassertReadGetDateSameField ==
    /\ Deassert(_bcd_to_string(data))
    /\ txn.kind = "R" /\ op.name = "getDate" /\ idx < 7
    /\ reads' = Append(reads, ReadFieldValue(FieldOrder[idx], _bcd_to_string(data)))
    /\ idx' = idx + 1
    /\ StartTxn(ReadTxn(ReadReg(FieldOrder[idx])))
    /\ UNCHANGED <<status, result, uw>>

(* _read_from_regiter and read<Field> return to getDate, which reads the next field. *)
CsDeassertReadGetDateNext ==
    /\ Deassert(_bcd_to_string(data))
    /\ txn.kind = "R" /\ op.name = "getDate" /\ idx < 7
    /\ reads' = Append(reads, ReadFieldValue(FieldOrder[idx], _bcd_to_string(data)))
    /\ idx' = idx + 1
    /\ StartTxn(ReadTxn(ReadReg(FieldOrder[idx + 1])))
    /\ UNCHANGED <<status, result, uw>>

(* The seventh read of getDate returns, and getDate returns the formatted date. *)
CsDeassertReadGetDateReturn ==
    /\ Deassert(_bcd_to_string(data))
    /\ txn.kind = "R" /\ op.name = "getDate" /\ idx = 7
    /\ reads' = Append(reads, ReadFieldValue(FieldOrder[idx], _bcd_to_string(data)))
    /\ Return(FormatDate(reads'))

(* The caller has the result (or the error) of op and goes on to its next     *)
(* call; the histories kept about op are dropped.                               *)
Resume ==
    /\ pc = "done"
    /\ pc' = "idle"
    /\ op' = NoOp
    /\ status' = "idle"
    /\ result' = "None"
    /\ reads' = <<>>
    /\ txlog' = <<>>
    /\ wire' = <<>>
    /\ samples' = <<>>
    /\ UNCHANGED <<pins, idx, uw, txn, fn, byteNo, i, byte, data, win, winPulses, winBytes, codec, env>>

-----------------------------------------------------------------------------
SetDateArgs ==
    {<<d, m, y, h, mi, s, w>> : d \in DayValues, m \in MonthValues, y \in SetYearValues,
         h \in HourValues, mi \in MinuteValues, s \in SecondValues, w \in WeekdayValues}

Next ==
    \/ \E f \in Fields \ {"Year"}, v \in WriteValues : CallWrite(f, v)
    \/ \E v \in WriteValues \cup YearValues : CallWrite("Year", v)
    \/ \E f \in Fields : CallRead(f)
    \/ CallStart
    \/ CallGetDate
    \/ \E a \in SetDateArgs : CallSetDate(a)
    \/ SetDateIf
    \/ CsAssert
    \/ DioInitOut
    \/ DioValue
    \/ DioInitIn
    \/ DioSample
    \/ ClkHigh
    \/ ClkLowLoop
    \/ ClkLowThenWriteData
    \/ ClkLowThenReadData
    \/ ClkLowThenDeassert
    \/ ClkLowThenReturn
    \/ CsDeassertNextWrite
    \/ CsDeassertWriteReturn
    \/ CsDeassertWriteSetDate
    \/ CsDeassertReadReturn
    \/ CsDeassertReadGetDateNext
    \/ CsDeassertReadGetDateReturn
    \/ Resume

Spec == Init /\ [][Next]_vars

-----------------------------------------------------------------------------
(* The bit transport on its own: _write_byte(b) called for any byte b.         *)
CallWriteByte(b) ==
    /\ BeginOp([name |-> "_write_byte", field |-> "-", args |-> <<b>>])
    /\ status' = "running"
    /\ result' = "None"
    /\ idx' = 0
    /\ uw' = NoUw
    /\ txn' = NoTxn
    /\ pc' = "dio_init_out"
    /\ fn' = "_write_byte"
    /\ byteNo' = 0
    /\ i' = 0
    /\ byte' = b
    /\ data' = 0

NextTransport ==
    \/ \E b \in Bytes : CallWriteByte(b)
    \/ DioInitOut
    \/ DioValue
    \/ ClkHigh
    \/ ClkLowLoop
    \/ ClkLowThenReturn
    \/ Resume

SpecTransport == Init /\ [][NextTransport]_vars

-----------------------------------------------------------------------------
(* getDate against a chip whose clock runs: a second may pass on the chip      *)
(* between two register transactions and between two calls, MaxTicks times.     *)
Tick ==
    /\ chip.on
    /\ chip.ticks < MaxTicks
    /\ pc \in {"idle", "cs_assert"}
    /\ chip' = ChipAfterTick
    /\ held' = held \cup {[Minutes |-> chip'.Minutes, Seconds |-> chip'.Seconds]}
    /\ UNCHANGED <<pins, ctl, hist, codec, other, switches>>

InitChip ==
    /\ InitDriver
    /\ CodecOff
    /\ chip \in ChipStarts
    /\ held = {}
    /\ other = IdleContext
    /\ switches = 0

NextChip ==
    \/ CallGetDate
    \/ CsAssert
    \/ DioInitOut
    \/ DioValue
    \/ ClkHigh
    \/ ClkLowLoop
    \/ ClkLowThenReadData
    \/ DioInitIn
    \/ DioSample
    \/ ClkLowThenDeassert
    \/ CsDeassertReadGetDateNext
    \/ CsDeassertReadGetDateReturn
    \/ Resume
    \/ Tick

SpecChip == InitChip /\ [][NextChip]_vars

-----------------------------------------------------------------------------
(* Two execution contexts that call the driver on the same pins. The object    *)
(* has no lock: the processor may leave the running context between any two    *)
(* pin operations, inside a transport call as well as between two of them, and *)
(* run the other context, which keeps its own local variables and sees the     *)
(* same pins.                                                                  *)
Switch ==
    /\ switches < MaxSwitches
    /\ other' = [op |-> op, status |-> status, result |-> result, idx |-> idx, uw |-> uw,
                 txn |-> txn, pc |-> pc, fn |-> fn, byteNo |-> byteNo, i |-> i, byte |-> byte,
                 data |-> data, reads |-> reads]
    /\ op' = other.op
    /\ status' = other.status
    /\ result' = other.result
    /\ idx' = other.idx
    /\ uw' = other.uw
    /\ txn' = other.txn
    /\ pc' = other.pc
    /\ fn' = other.fn
    /\ byteNo' = other.byteNo
    /\ i' = other.i
    /\ byte' = other.byte
    /\ data' = other.data
    /\ reads' = other.reads
    /\ switches' = switches + 1
    /\ UNCHANGED <<pins, hist, codec, chip, held>>

NextTwo ==
    \/ \E c \in TwoCalls : CallWrite(c[1], c[2])
    \/ CsAssert
    \/ DioInitOut
    \/ DioValue
    \/ ClkHigh
    \/ ClkLowLoop
    \/ ClkLowThenWriteData
    \/ ClkLowThenDeassert
    \/ CsDeassertNextWrite
    \/ CsDeassertWriteReturn
    \/ Resume
    \/ Switch

SpecTwo == Init /\ [][NextTwo]_vars

-----------------------------------------------------------------------------
(* The BCD codec on its own: _int_to_bcd applied to any integer of            *)
(* CodecInputs, and _bcd_to_string applied to the byte it gave.                *)
InitCodec ==
    /\ clk = 0
    /\ cs = 0
    /\ dio = 0
    /\ dioMode = "NONE"
    /\ op = NoOp
    /\ status = "idle"
    /\ result = "None"
    /\ idx = 0
    /\ uw = NoUw
    /\ txn = NoTxn
    /\ pc = "idle"
    /\ fn = "none"
    /\ byteNo = 0
    /\ i = 0
    /\ byte = 0
    /\ data = 0
    /\ reads = <<>>
    /\ txlog = <<>>
    /\ win = "none"
    /\ winPulses = 0
    /\ winBytes = <<>>
    /\ wire = <<>>
    /\ samples = <<>>
    /\ cin \in CodecInputs
    /\ cbcd = 0
    /\ cout = ""
    /\ cpc = "in"
    /\ EnvOff

Encode ==
    /\ cpc = "in"
    /\ cbcd' = _int_to_bcd(cin)
    /\ cpc' = IF cbcd' = ValueError THEN "raised" ELSE "encoded"
    /\ UNCHANGED <<pins, ctl, hist, cin, cout, env>>

Decode ==
    /\ cpc = "encoded"
    /\ cout' = _bcd_to_string(cbcd)
    /\ cpc' = "decoded"
    /\ UNCHANGED <<pins, ctl, hist, cin, cbcd, env>>

NextCodec ==
    \/ Encode
    \/ Decode

SpecCodec == InitCodec /\ [][NextCodec]_vars

-----------------------------------------------------------------------------
(* Vocabulary of the properties. *)

(* The BCD byte of v, by arithmetic. *)
Bcd(v) == (v \div 10) * 16 + (v % 10)

LoggedWrite(register, d) == [kind |-> "W", register |-> register, data |-> d, ret |-> ""]

(* The three transactions of one field write. *)
UnlockWriteLock(register, d) ==
    <<LoggedWrite(RTC_REG_WRITE_PROTECTION, 0), LoggedWrite(register, d),
      LoggedWrite(RTC_REG_WRITE_PROTECTION, 128)>>

(* The range check the documentation gives for each argument of setDate. *)
DocumentedGuard(f, v) ==
    CASE f = "DayOfTheMonth" -> v \in 1..31
      [] f = "Month" -> v \in 1..12
      [] f = "Year" -> v > 0
      [] f = "Hours" -> v \in 0..22
      [] f = "Minutes" -> v \in 0..59
      [] f = "Seconds" -> v \in 0..59
      [] f = "DayOfTheWeek" -> v \in 1..7

FieldWritten(f, v) ==
    \E j \in 1..(Len(txlog) - 2) :
        SubSeq(txlog, j, j + 2) = UnlockWriteLock(WriteReg(f), Bcd(IF f = "Year" THEN v % 100 ELSE v))

RegisterAddressed(register) == \E j \in 1..Len(txlog) : txlog[j].register = register

(* The k-th pin write of a transport write of b: data bit, clock high, clock low. *)
ExpectedEvent(b, k) ==
    CASE k % 3 = 1 -> <<"dio", (b \div (2 ^ ((k - 1) \div 3))) % 2>>
      [] k % 3 = 2 -> <<"clk", 1>>
      [] k % 3 = 0 -> <<"clk", 0>>

WireIsPrefixOf(b) == \A k \in 1..Len(wire) : wire[k] = ExpectedEvent(b, k)

RECURSIVE SampleSum(_)
SampleSum(s) == IF s = <<>> THEN 0 ELSE s[1] + 2 * SampleSum(Tail(s))

(* Pin writes of the running transport call made in the current loop round. *)
RoundEvents == CASE pc = "clk_high" -> 1 [] pc = "clk_low" -> 2 [] OTHER -> 0

-----------------------------------------------------------------------------
(* C1: for every field and every v in 0..99, write<Field>(v) ends normally    *)
(* having issued exactly the three transactions (0x8E,0x00), (field write     *)
(* address, BCD(v)), (0x8E,0x80), in this order and each in its own window.    *)
C1_WriteIssuesThreeTransactions ==
    (pc = "done" /\ op.name = "write" /\ op.args[1] \in 0..99)
        => /\ status = "returned"
           /\ txlog = UnlockWriteLock(WriteReg(op.field), Bcd(op.args[1]))

(* C2: every chip-select window the driver opens holds exactly 16 clock       *)
(* pulses, 8 of a _write_byte of the register address and then 8 of one       *)
(* _write_byte (write) or one _read_byte (read); chip-select is lowered only   *)
(* at a byte boundary after the second byte, and it is raised only when the    *)
(* window before it has been closed.                                           *)
C2_WindowIsSixteenPulses ==
    /\ win = "open" =>
          /\ cs = 1
          /\ winPulses <= 16
          /\ Len(winBytes) = winPulses \div 8
          /\ winPulses = 8 * Len(winBytes) + (IF fn = "none" \/ pc = "cs_deassert" THEN 0 ELSE i)
    /\ pc = "cs_deassert" => win = "open" /\ winPulses = 16
    /\ win = "closed" =>
          /\ cs = 0
          /\ winPulses = 16
          /\ winBytes \in {<<"_write_byte", "_write_byte">>, <<"_write_byte", "_read_byte">>}
    /\ (win = "closed" /\ txlog # <<>>) =>
          winBytes[2] = (IF txlog[Len(txlog)].kind = "R" THEN "_read_byte" ELSE "_write_byte")
    /\ pc = "cs_assert" => win # "open" /\ (win = "closed" => cs = 0)

C2_Witness ==
    /\ pc = "done" /\ op.name = "getDate" /\ Len(txlog) = 7
    /\ win = "closed" /\ winPulses = 16
    /\ winBytes = <<"_write_byte", "_read_byte">>

(* C3: a data bit is driven or sampled, and the clock is pulsed, only while   *)
(* the chip-select line is high.                                               *)
C3_TransportOnlyInsideWindow ==
    pc \in {"clk_high", "clk_low"} => cs = 1

(* C4: when setDate has returned, every field whose argument is inside its    *)
(* documented range has had its unlock, field write, re-lock, whatever the     *)
(* other arguments are.                                                        *)
C4_ValidFieldsAreWritten ==
    (pc = "done" /\ op.name = "setDate" /\ status = "returned")
        => \A k \in 1..7 :
              DocumentedGuard(FieldOrder[k], op.args[k]) => FieldWritten(FieldOrder[k], op.args[k])

(* C5: in setDate a field whose argument is outside its documented range is   *)
(* skipped: no transaction addresses its register, and no error leaves setDate. *)
C5_InvalidFieldsAreSkipped ==
    op.name = "setDate"
        => /\ status # "raised"
           /\ \A k \in 1..7 :
                 ~DocumentedGuard(FieldOrder[k], op.args[k])
                     => ~RegisterAddressed(WriteReg(FieldOrder[k]))

(* C6: _write_byte(b) configures the data pin as output and then, for bit 0   *)
(* to bit 7 of b in this order, writes the bit to the data pin, the clock high *)
(* and the clock low: 24 pin writes in this strict alternation, the clock low  *)
(* at the end.                                                                 *)
C6_WriteByteLsbFirst ==
    /\ (fn = "_write_byte" /\ pc \in {"dio_value", "clk_high", "clk_low"}) =>
          /\ dioMode = "OUT"
          /\ i \in 0..7
          /\ Len(wire) = 3 * i + RoundEvents
          /\ WireIsPrefixOf(byte)
    /\ (pc = "done" /\ op.name = "_write_byte") =>
          /\ Len(wire) = 24
          /\ WireIsPrefixOf(op.args[1])
          /\ clk = 0
          /\ dioMode = "OUT"
          /\ dio = (op.args[1] \div 128) % 2

C6_Witness ==
    /\ pc = "done" /\ op.name = "_write_byte" /\ op.args = <<128>>
    /\ <<wire[1][2], wire[4][2], wire[7][2], wire[10][2], wire[13][2], wire[16][2],
         wire[19][2], wire[22][2]>> = <<0, 0, 0, 0, 0, 0, 0, 1>>

(* C7: _read_byte configures the data pin as input, samples it before each of *)
(* its eight clock pulses, puts the i-th sample at bit i, and returns the sum  *)
(* of sample_i * 2^i after eight samples and eight pulses.                     *)
C7_ReadByteAssembles ==
    /\ (fn = "_read_byte" /\ pc \in {"dio_sample", "clk_high", "clk_low"}) =>
          /\ dioMode = "IN"
          /\ i \in 0..7
          /\ Len(samples) = (IF pc = "dio_sample" THEN i ELSE i + 1)
          /\ Len(wire) = 2 * i + (IF pc = "clk_low" THEN 1 ELSE 0)
          /\ \A k \in 1..Len(wire) : wire[k] = <<"clk", k % 2>>
          /\ data = SampleSum(samples)
    /\ (fn = "_read_byte" /\ pc = "cs_deassert") =>
          /\ dioMode = "IN"
          /\ Len(samples) = 8
          /\ Len(wire) = 16
          /\ data = SampleSum(samples)
          /\ clk = 0
    /\ \A j \in 1..Len(txlog) :
          (txlog[j].kind = "R" /\ j = Len(txlog) /\ Len(samples) = 8 /\ fn # "_read_byte")
              => txlog[j].data = SampleSum(samples)

C7_Witness ==
    /\ fn = "_read_byte" /\ pc = "cs_deassert"
    /\ samples = <<1, 1, 1, 0, 0, 0, 1, 0>>
    /\ data = 71

(* C8: for every v in 0..99, _int_to_bcd(v) is (v div 10) * 16 + (v mod 10)   *)
(* and _bcd_to_string of that byte is the decimal string of v.                 *)
C8_BcdRoundTrip ==
    (cin \in 0..99 /\ cpc # "in") =>
        /\ cpc \in {"encoded", "decoded"}
        /\ cbcd = Bcd(cin)
        /\ cin = 0 => cbcd = 0
        /\ cin = 59 => cbcd = 89
        /\ cin = 99 => cbcd = 153
        /\ cpc = "decoded" => cout = str(cin)
        /\ (cpc = "decoded" /\ cin = 59) => cout = "59"

C8_Witness == cpc = "decoded" /\ cin = 59 /\ cbcd = 89 /\ cout = "59"

(* C9: for every integer v below 0 or above 99, _int_to_bcd(v) raises         *)
(* ValueError and gives no byte.                                               *)
C9_OutOfRangeRaises ==
    (cpc \notin {"off", "in"} /\ cin \notin 0..99) =>
        /\ cpc = "raised"
        /\ cbcd = ValueError
        /\ cbcd \notin Bytes

C9_Witness == cpc = "raised" /\ cin = 100 /\ cbcd = ValueError

(* C10: a register read returns the decimal string of                         *)
(* ((B >> 4) & 0xF) * 10 + (B & 0xF) for the byte B the chip shifted out, for  *)
(* every B in 0..255, also when a nibble is above 9, and never an error.       *)
C10_ReadDecodes ==
    /\ \A j \in 1..Len(txlog) :
          txlog[j].kind = "R" =>
              /\ txlog[j].data \in Bytes
              /\ txlog[j].ret = str(((txlog[j].data \div 16) % 16) * 10 + (txlog[j].data % 16))
              /\ txlog[j].data = 71 => txlog[j].ret = "47"
    /\ (pc = "done" /\ op.name = "read") =>
          /\ status = "returned"
          /\ Len(txlog) = 1
          /\ txlog[1].data = SampleSum(samples)
          /\ result = (IF op.field = "Year" THEN "20" ELSE "") \o txlog[1].ret

C10_Witness ==
    /\ pc = "done" /\ op.name = "read" /\ op.field = "Seconds"
    /\ samples = <<1, 1, 0, 1, 0, 1, 0, 1>>
    /\ result = "111"

(* A byte whose two nibbles are decimal digits, and the number it encodes. *)
IsBcd(b) == (b \div 16) % 16 <= 9 /\ b % 16 <= 9
BcdValue(b) == ((b \div 16) % 16) * 10 + (b % 16)

(* C11: readYear returns "20" followed by the two-digit year of the chip: for *)
(* every BCD byte encoding 00..99 the four-character decimal string of         *)
(* 2000 + value.                                                               *)
C11_ReadYearFourDigits ==
    (pc = "done" /\ op.name = "read" /\ op.field = "Year" /\ IsBcd(txlog[1].data))
        => /\ Len(result) = 4
           /\ result = str(2000 + BcdValue(txlog[1].data))

(* C12: writeYear(year) ends normally for every positive year, having written *)
(* BCD(year mod 100) to the year register between unlock and re-lock.          *)
C12_WriteYearLastTwoDigits ==
    (pc = "done" /\ op.name = "write" /\ op.field = "Year" /\ op.args[1] > 0)
        => /\ status = "returned"
           /\ txlog = UnlockWriteLock(RTC_YEAR_WRITE, Bcd(op.args[1] % 100))

(* The read registers in the order of getDate, written out. *)
GetDateRegisters == <<135, 137, 141, 133, 131, 129, 139>>

(* C13: getDate performs seven read transactions and no write, each in its    *)
(* own chip-select window, of the registers 0x87, 0x89, 0x8D, 0x85, 0x83,      *)
(* 0x81, 0x8B in this order, and returns "Date: D.M.Y, H:Min:S, Day: W" built  *)
(* from the seven results in this order, the year behind the prefix "20".      *)
C13_GetDateSevenReads ==
    op.name = "getDate" =>
        /\ status # "raised"
        /\ Len(txlog) <= 7
        /\ \A j \in 1..Len(txlog) :
              /\ txlog[j].kind = "R"
              /\ txlog[j].register = GetDateRegisters[j]
        /\ Len(txlog) = (IF pc = "done" THEN 7 ELSE idx - 1)
        /\ (pc = "cs_assert") => (cs = 0 \/ txlog = <<>>)
        /\ (pc = "cs_deassert") => (winPulses = 16 /\ txn.register = GetDateRegisters[idx])
        /\ (pc = "done") =>
              /\ cs = 0
              /\ result = "Date: " \o txlog[1].ret \o "." \o txlog[2].ret \o ".20" \o txlog[3].ret
                          \o ", " \o txlog[4].ret \o ":" \o txlog[5].ret \o ":" \o txlog[6].ret
                          \o ", Day: " \o txlog[7].ret

C13_Witness ==
    /\ pc = "done" /\ op.name = "getDate"
    /\ <<txlog[1].data, txlog[2].data, txlog[3].data, txlog[4].data, txlog[5].data,
         txlog[6].data, txlog[7].data>> = <<36, 89, 36, 89, 89, 36, 89>>
    /\ result = "Date: 24.59.2024, 59:59:24, Day: 59"

(* The value of the last write-protect write among the first n logged transactions, *)
(* -1 when there is none.                                                           *)
RECURSIVE LastWriteProtect(_)
LastWriteProtect(n) ==
    IF n = 0 THEN -1
    ELSE IF txlog[n].kind = "W" /\ txlog[n].register = RTC_REG_WRITE_PROTECTION
         THEN txlog[n].data
         ELSE LastWriteProtect(n - 1)

(* C14: a data byte goes to a clock/calendar register only while the last     *)
(* value written to the write-protect register is 0x00, and when a public      *)
(* operation has ended, normally or with an error, after at least one write,   *)
(* the last value written to the write-protect register is 0x80.               *)
C14_WriteProtectBracket ==
    /\ \A j \in 1..Len(txlog) :
          (txlog[j].kind = "W" /\ txlog[j].register # RTC_REG_WRITE_PROTECTION)
              => LastWriteProtect(j - 1) = 0
    /\ (txn.kind = "W" /\ txn.register # RTC_REG_WRITE_PROTECTION)
          => LastWriteProtect(Len(txlog)) = 0
    /\ (pc \in {"done", "guard"} /\ \E j \in 1..Len(txlog) : txlog[j].kind = "W")
          => LastWriteProtect(Len(txlog)) = 128

C14_Witness ==
    /\ pc = "done" /\ op.name = "setDate" /\ status = "raised"
    /\ Len(txlog) >= 3
    /\ LastWriteProtect(Len(txlog)) = 128

(* C15 as stated: a per-field write of any field, the year included, called   *)
(* with a value outside 0..99 has ended with ValueError as soon as it is        *)
(* called, with no transaction, no pin write and no sample.                     *)
C15_AnyFieldRaisesBeforeAnyPin ==
    (op.name = "write" /\ op.args[1] \notin 0..99)
        => /\ pc = "done"
           /\ status = "raised"
           /\ result = "ValueError"
           /\ txn = NoTxn
           /\ txlog = <<>> /\ wire = <<>> /\ samples = <<>>

(* C15, amended: a write of a field other than the year called with a value   *)
(* outside 0..99 ends with ValueError in one step that changes no pin and adds *)
(* no transaction, window, pulse or wire event, and so does the step of        *)
(* setDate in which a field write fails. writeYear called with a value outside *)
(* 0..99 fails in this way only when the year's text has fewer than three      *)
(* characters (-9..-1); for every other such year the conversion gets the      *)
(* number made of the third and fourth character, which is inside 0..99, and   *)
(* the unlock transaction is started.                                          *)
C15_RaisesBeforeAnyPin ==
    [][ /\ (pc = "idle" /\ op'.name = "write" /\ op'.args[1] \notin 0..99
              /\ (op'.field # "Year" \/ op'.args[1] \in (0 - 9)..(0 - 1)))
            => /\ status' = "raised"
               /\ result' = "ValueError"
               /\ pc' = "done"
               /\ txlog' = <<>>
               /\ UNCHANGED <<pins, hist>>
        /\ (pc = "idle" /\ op'.name = "write" /\ op'.args[1] \notin 0..99
              /\ op'.field = "Year" /\ op'.args[1] \notin (0 - 9)..(0 - 1))
            => /\ status' = "running"
               /\ pc' = "cs_assert"
               /\ txn' = WriteTxn(RTC_REG_WRITE_PROTECTION, 0)
               /\ uw'.register = RTC_YEAR_WRITE
               /\ uw'.dataInBcd \in {Bcd(v) : v \in 0..99}
               /\ UNCHANGED <<pins, hist>>
        /\ (status # "raised" /\ status' = "raised") => UNCHANGED <<pins, hist>>
      ]_vars

C15_Witness ==
    /\ pc = "done" /\ op.name = "write" /\ op.field = "Seconds" /\ op.args = <<100>>
    /\ status = "raised" /\ result = "ValueError"
    /\ txlog = <<>> /\ wire = <<>> /\ win = "none" /\ dioMode = "NONE"

(* C16: the data pin is an output whenever the driver drives it and an input  *)
(* whenever the driver samples it; inside a read transaction the direction     *)
(* changes from output to input only after the 8th pulse of the command byte   *)
(* and before the first sample, with chip-select asserted before and after,    *)
(* and it is input when the window closes.                                     *)
C16_DataLineDirection ==
    /\ [](/\ (pc = "dio_value") => dioMode = "OUT"
          /\ (pc = "dio_sample") => dioMode = "IN"
          /\ (fn = "_read_byte" /\ pc \in {"clk_high", "clk_low"}) => dioMode = "IN"
          /\ (txn.kind = "R" /\ pc = "cs_deassert") => dioMode = "IN"
          /\ (txn.kind = "R" /\ fn = "_write_byte" /\ pc \in {"dio_value", "clk_high", "clk_low"})
                => (dioMode = "OUT" /\ winPulses < 8))
    /\ [][ /\ (dio' # dio) => (dioMode = "OUT" /\ dioMode' = "OUT")
           /\ (samples' # samples /\ samples' # <<>>) => (dioMode = "IN" /\ dioMode' = "IN")
           /\ (dioMode = "OUT" /\ dioMode' # "OUT")
                => /\ dioMode' = "IN"
                   /\ txn.kind = "R"
                   /\ win = "open" /\ winPulses = 8 /\ winBytes = <<"_write_byte">>
                   /\ samples' = <<>>
                   /\ cs = 1 /\ cs' = 1
           /\ (txn.kind = "R" /\ dioMode # "OUT" /\ dioMode' = "OUT")
                => (win = "open" /\ winPulses = 0 /\ cs = 1 /\ cs' = 1)
         ]_vars

C16_Witness ==
    /\ txn.kind = "R" /\ pc = "dio_sample" /\ i = 0
    /\ dioMode = "IN" /\ cs = 1 /\ winPulses = 8 /\ samples = <<>>

(* C17: start() makes one transport write of 0xBE, eight bits least           *)
(* significant first with eight pulses, and nothing else: no data byte, no     *)
(* read, no register transaction, no change of chip-select; the data pin is    *)
(* left an output at the level of the last bit.                                *)
C17_StartSendsOneByte ==
    /\ [](op.name = "start" =>
            /\ txn = NoTxn /\ uw = NoUw
            /\ txlog = <<>> /\ samples = <<>> /\ reads = <<>>
            /\ pc \in {"dio_init_out", "dio_value", "clk_high", "clk_low", "done"}
            /\ (pc # "done") => (fn = "_write_byte" /\ byteNo = 0 /\ byte = 190)
            /\ (pc = "dio_init_out") => wire = <<>>
            /\ (pc \in {"dio_value", "clk_high", "clk_low"})
                  => (dioMode = "OUT" /\ Len(wire) = 3 * i + RoundEvents /\ WireIsPrefixOf(190))
            /\ (pc = "done")
                  => /\ status = "returned"
                     /\ Len(wire) = 24 /\ WireIsPrefixOf(190)
                     /\ dioMode = "OUT" /\ dio = 1 /\ clk = 0)
    /\ [][(op'.name = "start") => UNCHANGED <<cs, win, winPulses, winBytes, txlog, samples>>]_vars

C17_Witness ==
    /\ pc = "done" /\ op.name = "start" /\ status = "returned"
    /\ Len(wire) = 24 /\ cs = 0 /\ win = "closed" /\ dioMode = "OUT"
    /\ <<wire[1][2], wire[4][2], wire[7][2], wire[10][2], wire[13][2], wire[16][2],
         wire[19][2], wire[22][2]>> = <<0, 1, 1, 1, 1, 1, 0, 1>>

(* C20: once a register transaction has completed, in every state in which no *)
(* public operation is in progress chip-select is deasserted and the clock is  *)
(* low, and every later chip-select assertion is made with the clock low.      *)
C20_IdleBus ==
    win = "closed" =>
        /\ (pc \in {"idle", "done"}) => (cs = 0 /\ clk = 0)
        /\ (pc = "cs_assert") => clk = 0

C20_Witness ==
    /\ win = "closed" /\ pc = "cs_assert" /\ op.name = "read"
    /\ cs = 0 /\ clk = 0 /\ winPulses = 16

(* The pair of minutes and seconds getDate returned is one the chip never held *)
(* during the call.                                                            *)
TornRead ==
    \A h \in held : <<txlog[5].ret, txlog[6].ret>> # <<str(h.Minutes), str(h.Seconds)>>

(* C18: getDate reads the chip in seven transactions with nothing that holds  *)
(* the chip's time between them: each of the minutes and the seconds it        *)
(* returns is a value the chip held at some instant of the call, the two form  *)
(* a pair the chip held when the chip did not advance during the call, and a   *)
(* pair the chip never held is returned only when it did advance.              *)
C18_FieldsReadOneByOne ==
    (pc = "done" /\ op.name = "getDate") =>
        /\ \E h \in held : txlog[5].ret = str(h.Minutes)
        /\ \E h \in held : txlog[6].ret = str(h.Seconds)
        /\ \A h \in held :
              Cardinality(held) = 1 =>
                  result = "Date: 3.2.2024, 15:" \o str(h.Minutes) \o ":" \o str(h.Seconds)
                           \o ", Day: 6"
        /\ TornRead => Cardinality(held) > 1

(* The seconds roll over from 59 between the read of the minutes and the read *)
(* of the seconds: 47:59 and 48:00 were held, 47:0 is returned.                 *)
C18_Witness ==
    /\ pc = "done" /\ op.name = "getDate"
    /\ [Minutes |-> 47, Seconds |-> 59] \in held
    /\ [Minutes |-> 48, Seconds |-> 0] \in held
    /\ result = "Date: 3.2.2024, 15:47:0, Day: 6"
    /\ TornRead

(* C19: the driver has no mutual exclusion. A chip-select window that has     *)
(* closed holds the 16 pulses of one address byte and one data byte, an open   *)
(* window holds at most 16 pulses, and chip-select is raised only on a closed  *)
(* window, as long as a single context owns the pins; a window that is not of  *)
(* this form is seen only after the processor has gone to a second context     *)
(* inside a transaction.                                                       *)
C19_FramingNeedsSingleOwner ==
    switches = 0 =>
        /\ (win = "closed") =>
              (cs = 0 /\ winPulses = 16 /\ winBytes = <<"_write_byte", "_write_byte">>)
        /\ (win = "open") => (cs = 1 /\ winPulses <= 16 /\ Len(winBytes) <= 2)
        /\ (pc = "cs_assert") => (win # "open" /\ (win = "closed" => cs = 0))
        /\ (pc \in {"dio_value", "clk_high", "clk_low"}) => (cs = 1 /\ win = "open")

(* The first context is left inside its address byte, after three pulses and  *)
(* the level of bit 3; the second context raises chip-select, which is high    *)
(* already, sends its two bytes and lowers chip-select: one window with 19     *)
(* pulses, three of a byte that was never completed.                           *)
C19_Witness ==
    /\ switches = 1
    /\ other.pc = "clk_high" /\ other.byteNo = 1 /\ other.i = 3
    /\ other.op = [name |-> "write", field |-> "Seconds", args |-> <<30>>]
    /\ op = [name |-> "write", field |-> "Minutes", args |-> <<47>>]
    /\ win = "closed" /\ cs = 0
    /\ winPulses = 19
    /\ winBytes = <<"_write_byte", "_write_byte">>

====
